---- MODULE Spec2Model ----
(***************************************************************************)
(* Model of PropertyInterceptor.js: one field of one object, the accessor  *)
(* functions that the three install operations hang on it, and the get and *)
(* set algorithms those accessors run.                                     *)
(*                                                                         *)
(* Function objects live in the heap `fns` (a sequence, a function's id is *)
(* its index).  An engine getter carries value/after/oldGet, an engine     *)
(* setter carries before/after/oldset, and both carry `env`, the           *)
(* descriptor object their closure captured in the install call that made  *)
(* them.  `prop` is what Object.getOwnPropertyDescriptor(object,property)  *)
(* would return.                                                           *)
(***************************************************************************)
EXTENDS Integers, Sequences, FiniteSets, TLC

\* ------------------------------------------------------------------ bounds
\* numbers held by the field are 0 .. NumMod-1
NumMod == 4
\* number of successful install calls in one behaviour
MaxInstalls == 2

\* ------------------------------------------------------------------ values
\* the JavaScript value undefined
Undefined == -1
\* a value for which typeof(value)==="function"
FnVal == -2
\* an absent accessor function (descriptor.get / descriptor.set undefined)
NoFn == 0

Nums == 0 .. (NumMod - 1)
Val == Nums \cup {Undefined, FnVal}

\* a guard that lets every value through
IsCallable_never(v) == FALSE

\* typeof(value)==="function"
IsCallable(v) == v = FnVal

\* ------------------------------------------------------- caller's callbacks
\* callbacks that transform a value (afterGet, beforeSet)
TransformCbs == {"inc", "toFn", "veto0"}
\* callbacks that observe a committed value (afterSet)
ObserverCbs == {"obs", "obsThrow"}
\* afterSet callbacks that assign to the field they observe:
\* "rewrite" is function(o,p,v) { o[p] = v; },
\* "bump" is function(o,p,v) { if(v === 1) o[p] = 2; }
ReentrantCbs == {"rewrite", "bump"}

\* does callback cb assign to the observed field when called with v
Writes(cb, v) == cb = "rewrite" \/ (cb = "bump" /\ v = 1)
\* the value it assigns
Written(cb, v) == IF cb = "bump" THEN 2 ELSE v

\* does callback cb raise when called with v
Throws(cb, v) == (cb = "veto0" /\ v = 0) \/ cb = "obsThrow"

\* the value callback cb returns for v (when it does not raise)
Apply(cb, v) ==
  CASE cb = "inc"   -> IF v \in Nums THEN (v + 1) % NumMod ELSE v
    [] cb = "toFn"  -> FnVal
    [] cb = "veto0" -> v
    [] OTHER        -> Undefined

\* ------------------------------------------------------------------- state
VARIABLES
  prop,       \* the field's property descriptor on the object
  fns,        \* heap of accessor function objects
  installed,  \* history: the successful install calls, in call order
  last,       \* the last operation: kind, inputs, outcome
  log         \* callbacks and prior accessors invoked by the last operation

vars == <<prop, fns, installed, last, log>>

\* an accessor function object
UserFn(ret) ==
  [kind |-> "user", value |-> ret, after |-> <<>>, before |-> <<>>,
   oldFn |-> NoFn, env |-> [get |-> NoFn, set |-> NoFn]]

\* one invocation recorded in the log
Event(chain, hd, arg, ret, threw, cached) ==
  [chain |-> chain, id |-> hd.id, cb |-> hd.cb, arg |-> arg, ret |-> ret,
   threw |-> threw, cached |-> cached, depth |-> 0]

\* the invocations of a write made from inside a handler
Deeper(l) == [i \in 1 .. Len(l) |-> [l[i] EXCEPT !.depth = @ + 1]]

NoHandler == [cb |-> "", id |-> 0]

\* the handler wrapper an install call creates around its callback
Handler(cb, id) == [cb |-> cb, id |-> id]

\* ------------------------------------------------------------ chain runners
\* descriptor.get.after.forEach / descriptor.set.before.forEach:
\* value = handler(value), a raise ends the loop
RECURSIVE RunChain(_, _, _, _)
RunChain(chain, v, name, cached) ==
  IF chain = <<>> THEN [val |-> v, threw |-> FALSE, log |-> <<>>]
  ELSE LET hd == Head(chain) IN
       IF Throws(hd.cb, v)
       THEN [val |-> v, threw |-> TRUE,
             log |-> <<Event(name, hd, v, Undefined, TRUE, cached)>>]
       ELSE LET w == Apply(hd.cb, v)
                r == RunChain(Tail(chain), w, name, cached)
            IN [val |-> r.val, threw |-> r.threw,
                log |-> <<Event(name, hd, v, w, FALSE, cached)>> \o r.log]

\* ---------------------------------------------------------------- get, set
\* function get(descriptor)
get(h, d) ==
  LET G == h[d.get]
      useOld == G.value = Undefined /\ G.oldFn # NoFn
      start == IF useOld THEN h[G.oldFn].value ELSE G.value
      pre == IF useOld
             THEN <<Event("oldGet", NoHandler, Undefined, start, FALSE, G.value)>>
             ELSE <<>>
      r == RunChain(G.after, start, "afterGet", G.value)
  IN IF r.threw
     THEN [heap |-> h, ret |-> Undefined, threw |-> TRUE, log |-> pre \o r.log]
     ELSE [heap |-> [h EXCEPT ![d.get].value = r.val], ret |-> r.val,
           threw |-> FALSE, log |-> pre \o r.log]

\* a change test that always fires
ValueChanged_always(value, originalvalue) == TRUE

\* if(value!==originalvalue)
ValueChanged(value, originalvalue) == value # originalvalue

\* set and the afterSet loop call each other when a handler assigns to the
\* field.  `calls` is the number of calls (of set, of a beforeSet handler, of
\* an afterSet handler) the write can still make before the host's call stack
\* runs out: the call that finds none left is not made and ends with the
\* host's stack overflow error, which leaves every store made so far in place
\* and passes up through the handlers like any other raise.
RECURSIVE set(_, _, _, _)
RECURSIVE RunAfter(_, _, _, _, _)

\* an afterSet loop that did not run
NoAfter(h, calls) ==
  [heap |-> h, threw |-> FALSE, overflow |-> FALSE, calls |-> calls, log |-> <<>>]

\* RangeError: Maximum call stack size exceeded, after the invocations l
StackOverflow(h, l) ==
  [heap |-> h, threw |-> TRUE, overflow |-> TRUE, calls |-> 0, log |-> l]

\* an afterSet loop handing the later handlers the value stored by now
RunAfter_fresh(h, d, chain, v, calls) ==
  IF chain = <<>> THEN NoAfter(h, calls)
  ELSE IF calls = 0 THEN StackOverflow(h, <<>>)
  ELSE LET hd == Head(chain)
           ev(t) == Event("afterSet", hd, v, Undefined, t, h[d.get].value)
       IN IF Throws(hd.cb, v)
          THEN [NoAfter(h, calls - 1) EXCEPT !.threw = TRUE, !.log = <<ev(TRUE)>>]
          ELSE IF Writes(hd.cb, v)
          THEN LET n == set(h, d, Written(hd.cb, v), calls - 1)
                   r == RunAfter(n.heap, d, Tail(chain), n.heap[d.get].value, n.calls)
               IN IF n.threw
                  THEN [heap |-> n.heap, threw |-> TRUE, overflow |-> n.overflow,
                        calls |-> n.calls, log |-> <<ev(TRUE)>> \o Deeper(n.log)]
                  ELSE [r EXCEPT !.log = <<ev(FALSE)>> \o Deeper(n.log) \o @]
          ELSE LET r == RunAfter(h, d, Tail(chain), v, calls - 1)
               IN [r EXCEPT !.log = <<ev(FALSE)>> \o @]

\* descriptor.set.after.forEach: after(value), the result is discarded; a
\* handler that assigns to the field runs set through the field's setter
RunAfter(h, d, chain, v, calls) ==
  IF chain = <<>> THEN NoAfter(h, calls)
  ELSE IF calls = 0 THEN StackOverflow(h, <<>>)
  ELSE LET hd == Head(chain)
           ev(t) == Event("afterSet", hd, v, Undefined, t, h[d.get].value)
       IN IF Throws(hd.cb, v)
          THEN [NoAfter(h, calls - 1) EXCEPT !.threw = TRUE, !.log = <<ev(TRUE)>>]
          ELSE IF Writes(hd.cb, v)
          THEN LET n == set(h, d, Written(hd.cb, v), calls - 1)
                   r == RunAfter(n.heap, d, Tail(chain), v, n.calls)
               IN IF n.threw
                  THEN [heap |-> n.heap, threw |-> TRUE, overflow |-> n.overflow,
                        calls |-> n.calls, log |-> <<ev(TRUE)>> \o Deeper(n.log)]
                  ELSE [r EXCEPT !.log = <<ev(FALSE)>> \o Deeper(n.log) \o @]
          ELSE LET r == RunAfter(h, d, Tail(chain), v, calls - 1)
               IN [r EXCEPT !.log = <<ev(FALSE)>> \o @]

\* set running the afterSet handlers before it stores the value
set_lateCommit(h, d, value, calls) ==
  LET originalvalue == h[d.get].value
      b == RunChain(h[d.set].before, value, "beforeSet", originalvalue)
      left == calls - 1 - Len(b.log)
      h1 == [h EXCEPT ![d.get].value = b.val]
      a == IF ValueChanged(b.val, originalvalue)
           THEN RunAfter(h, d, h[d.set].after, b.val, left)
           ELSE NoAfter(h1, left)
  IN IF calls = 0
     THEN [StackOverflow(h, <<>>) EXCEPT !.ret = Undefined]
     ELSE IF left < 0
     THEN [StackOverflow(h, SubSeq(b.log, 1, calls - 1)) EXCEPT !.ret = Undefined]
     ELSE IF b.threw
     THEN [heap |-> h, ret |-> Undefined, threw |-> TRUE, overflow |-> FALSE,
           calls |-> left, log |-> b.log]
     ELSE [heap |-> h1, ret |-> IF a.threw THEN Undefined ELSE b.val,
           threw |-> a.threw, overflow |-> a.overflow, calls |-> a.calls,
           log |-> b.log \o a.log]

\* set storing the value a vetoing beforeSet handler was given
set_commitOnVeto(h, d, value, calls) ==
  LET originalvalue == h[d.get].value
      b == RunChain(h[d.set].before, value, "beforeSet", originalvalue)
      left == calls - 1 - Len(b.log)
      h1 == [h EXCEPT ![d.get].value = b.val]
      a == IF ValueChanged(b.val, originalvalue)
           THEN RunAfter(h1, d, h1[d.set].after, b.val, left)
           ELSE NoAfter(h1, left)
  IN IF calls = 0
     THEN [StackOverflow(h, <<>>) EXCEPT !.ret = Undefined]
     ELSE IF left < 0
     THEN [StackOverflow(h, SubSeq(b.log, 1, calls - 1)) EXCEPT !.ret = Undefined]
     ELSE IF b.threw
     THEN [heap |-> h1, ret |-> Undefined, threw |-> TRUE, overflow |-> FALSE,
           calls |-> left, log |-> b.log]
     ELSE [heap |-> a.heap, ret |-> IF a.threw THEN Undefined ELSE b.val,
           threw |-> a.threw, overflow |-> a.overflow, calls |-> a.calls,
           log |-> b.log \o a.log]

\* set undoing its store when an afterSet handler raises
set_rollback(h, d, value, calls) ==
  LET originalvalue == h[d.get].value
      b == RunChain(h[d.set].before, value, "beforeSet", originalvalue)
      left == calls - 1 - Len(b.log)
      h1 == [h EXCEPT ![d.get].value = b.val]
      a == IF ValueChanged(b.val, originalvalue)
           THEN RunAfter(h1, d, h1[d.set].after, b.val, left)
           ELSE NoAfter(h1, left)
  IN IF calls = 0
     THEN [StackOverflow(h, <<>>) EXCEPT !.ret = Undefined]
     ELSE IF left < 0
     THEN [StackOverflow(h, SubSeq(b.log, 1, calls - 1)) EXCEPT !.ret = Undefined]
     ELSE IF b.threw
     THEN [heap |-> h, ret |-> Undefined, threw |-> TRUE, overflow |-> FALSE,
           calls |-> left, log |-> b.log]
     ELSE [heap |-> IF a.threw THEN h ELSE a.heap, ret |-> IF a.threw THEN Undefined ELSE b.val,
           threw |-> a.threw, overflow |-> a.overflow, calls |-> a.calls,
           log |-> b.log \o a.log]

\* function set(descriptor,value); nothing is returned when a handler raises
set(h, d, value, calls) ==
  LET originalvalue == h[d.get].value
      b == RunChain(h[d.set].before, value, "beforeSet", originalvalue)
      left == calls - 1 - Len(b.log)
      h1 == [h EXCEPT ![d.get].value = b.val]
      a == IF ValueChanged(b.val, originalvalue)
           THEN RunAfter(h1, d, h1[d.set].after, b.val, left)
           ELSE NoAfter(h1, left)
  IN IF calls = 0
     THEN [StackOverflow(h, <<>>) EXCEPT !.ret = Undefined]
     ELSE IF left < 0
     THEN [StackOverflow(h, SubSeq(b.log, 1, calls - 1)) EXCEPT !.ret = Undefined]
     ELSE IF b.threw
     THEN [heap |-> h, ret |-> Undefined, threw |-> TRUE, overflow |-> FALSE,
           calls |-> left, log |-> b.log]
     ELSE [heap |-> a.heap, ret |-> IF a.threw THEN Undefined ELSE b.val,
           threw |-> a.threw, overflow |-> a.overflow, calls |-> a.calls,
           log |-> b.log \o a.log]

\* calling the accessor function f as a getter
CallGet(h, f) ==
  IF h[f].kind = "user"
  THEN [heap |-> h, ret |-> h[f].value, threw |-> FALSE,
        log |-> <<Event("oldGet", NoHandler, Undefined, h[f].value, FALSE, Undefined)>>]
  ELSE get(h, h[f].env)

\* Object.getOwnPropertyDescriptor(object,property), or the fresh descriptor
Descriptor ==
  IF prop.kind = "absent"
  THEN [get |-> NoFn, set |-> NoFn, value |-> Undefined]
  ELSE [get |-> prop.get, set |-> prop.set, value |-> prop.value]

\* an installation that looks at the stored value without running the getter
CurrentValue_peek(h, D) ==
  [heap |-> h, ret |-> IF D.get # NoFn THEN h[D.get].value ELSE D.value,
   threw |-> FALSE, log |-> <<>>]

\* var value = (descriptor.get ? descriptor.get() : descriptor.value)
CurrentValue(h, D) ==
  IF D.get # NoFn THEN CallGet(h, D.get)
  ELSE [heap |-> h, ret |-> D.value, threw |-> FALSE, log |-> <<>>]

\* a test that never recognises an engine setter
HasSetChains_never(h, f) == FALSE

\* descriptor.get.after is set: the getter is one of the engine's
HasGetAfter(h, f) == h[f].kind = "engineGet"
\* descriptor.set.before / descriptor.set.after is set: an engine setter
HasSetChains(h, f) == h[f].kind = "engineSet"

\* a push that puts the handler first
PushHandler_front(chain, handler) == <<handler>> \o chain
\* an unshift that puts the handler last
UnshiftHandler_back(chain, handler) == Append(chain, handler)

\* descriptor.get.after.push(handler) / descriptor.set.after.push(handler)
PushHandler(chain, handler) == Append(chain, handler)
\* descriptor.set.before.unshift(handler)
UnshiftHandler(chain, handler) == <<handler>> \o chain

\* descriptor.get = function() { return get(descriptor); } with its fields
NewGetter(value, after, oldget, env) ==
  [kind |-> "engineGet", value |-> value, after |-> after, before |-> <<>>,
   oldFn |-> oldget, env |-> env]

\* descriptor.set = function(value) { return set(descriptor,value); }
NewSetter(before, after, oldset, env) ==
  [kind |-> "engineSet", value |-> Undefined, after |-> after, before |-> before,
   oldFn |-> oldset, env |-> env]

\* ------------------------------------------------------------ observations
\* the getter whose value/after the field's read path uses
ReadGetter == IF prop.kind = "accessor" /\ prop.get # NoFn /\ fns[prop.get].kind = "engineGet"
              THEN fns[prop.get].env.get ELSE NoFn
\* the getter whose value the field's write path uses
WriteGetter == IF prop.kind = "accessor" /\ prop.set # NoFn /\ fns[prop.set].kind = "engineSet"
               THEN fns[prop.set].env.get ELSE NoFn
\* the setter whose before/after the field's write path uses
WriteSetter == IF prop.kind = "accessor" /\ prop.set # NoFn /\ fns[prop.set].kind = "engineSet"
               THEN fns[prop.set].env.set ELSE NoFn

Intercepted == ReadGetter # NoFn
cachedValue == IF ReadGetter # NoFn THEN fns[ReadGetter].value ELSE Undefined
afterGetChain == IF ReadGetter # NoFn THEN fns[ReadGetter].after ELSE <<>>
beforeSetChain == IF WriteSetter # NoFn THEN fns[WriteSetter].before ELSE <<>>
afterSetChain == IF WriteSetter # NoFn THEN fns[WriteSetter].after ELSE <<>>

\* ------------------------------------------------------------------ Init
InitVals == {Undefined, 1, FnVal}

NoOp == [op |-> "init", cb |-> "", val |-> Undefined, status |-> "ok",
         ret |-> Undefined, pre |-> Undefined]

Init ==
  /\ installed = <<>>
  /\ last = NoOp
  /\ log = <<>>
  /\ \/ /\ prop = [kind |-> "absent", value |-> Undefined, get |-> NoFn, set |-> NoFn]
        /\ fns = <<>>
     \/ \E v \in InitVals :
        /\ prop = [kind |-> "data", value |-> v, get |-> NoFn, set |-> NoFn]
        /\ fns = <<>>
     \/ \E v \in InitVals :
        /\ prop = [kind |-> "accessor", value |-> Undefined, get |-> 1, set |-> NoFn]
        /\ fns = <<UserFn(v)>>
     \/ /\ prop = [kind |-> "accessor", value |-> Undefined, get |-> NoFn, set |-> 1]
        /\ fns = <<UserFn(Undefined)>>
     \/ \E v \in InitVals :
        /\ prop = [kind |-> "accessor", value |-> Undefined, get |-> 1, set |-> 2]
        /\ fns = <<UserFn(v), UserFn(Undefined)>>

\* ---------------------------------------------------------------- installs
\* what an install call did: status "ok" (returned the object), "false" (returned
\* false) or "throw"; ret is the value the call read from the field
Outcome(op, cb, status, ret, pre) ==
  [op |-> op, cb |-> cb, val |-> Undefined, status |-> status,
   ret |-> ret, pre |-> pre]

\* PropertyInterceptor.prototype.afterGet
InstallAfterGet(cb) ==
  LET D == Descriptor
      rd == CurrentValue(fns, D)
      h1 == rd.heap
      handler == Handler(cb, Len(installed) + 1)
      reuse == D.get # NoFn /\ HasGetAfter(h1, D.get)
      gid == IF reuse THEN D.get ELSE Len(h1) + 1
      needSet == D.set = NoFn
      sid == IF needSet THEN (IF reuse THEN Len(h1) + 1 ELSE Len(h1) + 2) ELSE D.set
      env == [get |-> gid, set |-> sid]
      h2 == IF reuse THEN [h1 EXCEPT ![gid].after = PushHandler(@, handler)]
            ELSE Append(h1, NewGetter(rd.ret, <<handler>>, D.get, env))
      h3 == IF needSet THEN Append(h2, NewSetter(<<>>, <<>>, NoFn, env)) ELSE h2
  IN /\ Len(installed) < MaxInstalls
     /\ log' = rd.log
     /\ IF rd.threw
        THEN /\ fns' = h1
             /\ UNCHANGED <<prop, installed>>
             /\ last' = Outcome("afterGet", cb, "throw", rd.ret, cachedValue)
        ELSE /\ fns' = h3
             /\ prop' = [kind |-> "accessor", value |-> Undefined, get |-> gid, set |-> sid]
             /\ installed' = Append(installed, [chain |-> "afterGet", cb |-> cb])
             /\ last' = Outcome("afterGet", cb, "ok", rd.ret, cachedValue)

\* PropertyInterceptor.prototype.beforeSet
InstallBeforeSet(cb) ==
  LET D == Descriptor
      rd == CurrentValue(fns, D)
      h1 == rd.heap
      handler == Handler(cb, Len(installed) + 1)
      needGet == D.get = NoFn \/ ~HasGetAfter(h1, D.get)
      gid == IF needGet THEN Len(h1) + 1 ELSE D.get
      h2 == IF needGet THEN Append(h1, NewGetter(rd.ret, <<>>, D.get, [get |-> NoFn, set |-> NoFn]))
            ELSE h1
      needSet == D.set = NoFn
      wrap == ~needSet /\ ~HasSetChains(h2, D.set)
      sid == IF needSet \/ wrap THEN Len(h2) + 1 ELSE D.set
      env == [get |-> gid, set |-> sid]
      h3 == IF needSet \/ wrap
            THEN Append(h2, NewSetter(<<handler>>, <<>>, IF wrap THEN D.set ELSE NoFn, env))
            ELSE [h2 EXCEPT ![sid].before = UnshiftHandler(@, handler)]
      h4 == IF needGet THEN [h3 EXCEPT ![gid].env = env] ELSE h3
  IN /\ Len(installed) < MaxInstalls
     /\ log' = rd.log
     /\ IF rd.threw
        THEN /\ fns' = h1
             /\ UNCHANGED <<prop, installed>>
             /\ last' = Outcome("beforeSet", cb, "throw", rd.ret, cachedValue)
        ELSE IF IsCallable(rd.ret)
        THEN /\ fns' = h1
             /\ UNCHANGED <<prop, installed>>
             /\ last' = Outcome("beforeSet", cb, "false", rd.ret, cachedValue)
        ELSE /\ fns' = h4
             /\ prop' = [kind |-> "accessor", value |-> Undefined, get |-> gid, set |-> sid]
             /\ installed' = Append(installed, [chain |-> "beforeSet", cb |-> cb])
             /\ last' = Outcome("beforeSet", cb, "ok", rd.ret, cachedValue)

\* PropertyInterceptor.prototype.afterSet
InstallAfterSet(cb) ==
  LET D == Descriptor
      rd == CurrentValue(fns, D)
      h1 == rd.heap
      handler == Handler(cb, Len(installed) + 1)
      needGet == D.get = NoFn \/ ~HasGetAfter(h1, D.get)
      gid == IF needGet THEN Len(h1) + 1 ELSE D.get
      h2 == IF needGet THEN Append(h1, NewGetter(rd.ret, <<>>, D.get, [get |-> NoFn, set |-> NoFn]))
            ELSE h1
      needSet == D.set = NoFn
      wrap == ~needSet /\ ~HasSetChains(h2, D.set)
      sid == IF needSet \/ wrap THEN Len(h2) + 1 ELSE D.set
      env == [get |-> gid, set |-> sid]
      h3 == IF needSet \/ wrap
            THEN Append(h2, NewSetter(<<>>, <<handler>>, IF wrap THEN D.set ELSE NoFn, env))
            ELSE [h2 EXCEPT ![sid].after = PushHandler(@, handler)]
      h4 == IF needGet THEN [h3 EXCEPT ![gid].env = env] ELSE h3
  IN /\ Len(installed) < MaxInstalls
     /\ log' = rd.log
     /\ IF rd.threw
        THEN /\ fns' = h1
             /\ UNCHANGED <<prop, installed>>
             /\ last' = Outcome("afterSet", cb, "throw", rd.ret, cachedValue)
        ELSE IF IsCallable(rd.ret)
        THEN /\ fns' = h1
             /\ UNCHANGED <<prop, installed>>
             /\ last' = Outcome("afterSet", cb, "false", rd.ret, cachedValue)
        ELSE /\ fns' = h4
             /\ prop' = [kind |-> "accessor", value |-> Undefined, get |-> gid, set |-> sid]
             /\ installed' = Append(installed, [chain |-> "afterSet", cb |-> cb])
             /\ last' = Outcome("afterSet", cb, "ok", rd.ret, cachedValue)

\* ---------------------------------------------------------- reads, writes
\* var x = object.property
Read ==
  LET rd == CurrentValue(fns, Descriptor)
  IN /\ fns' = rd.heap
     /\ log' = rd.log
     /\ last' = [op |-> "read", cb |-> "", val |-> Undefined,
                 status |-> IF rd.threw THEN "throw" ELSE "ok",
                 ret |-> rd.ret, pre |-> cachedValue]
     /\ UNCHANGED <<prop, installed>>

\* the number of calls after which the host's stack may run out, scaled down
\* to the model's sizes.  A write that recurses without end repeats itself
\* after at most Period calls, from its second call of set on; so a range of
\* that length, beginning after two calls of set with their chains, lets the
\* stack run out at every call of the repeating part.  A write that ends by
\* itself makes fewer than MaxCalls calls and never runs out of stack.
Period == NumMod * (MaxInstalls + 1)
MinCalls == 2 * (MaxInstalls + 1)
MaxCalls == MinCalls + Period - 1
StackCalls == MinCalls .. MaxCalls

\* object.property = v; the write ends by itself, and then alike on every
\* stack, unless it recurses without end, and then ends where the host's stack
\* runs out
Write(v) ==
  /\ prop.kind = "accessor" => prop.set # NoFn
  /\ UNCHANGED installed
  /\ IF prop.kind # "accessor"
     THEN /\ prop' = [kind |-> "data", value |-> v, get |-> NoFn, set |-> NoFn]
          /\ log' = <<>>
          /\ last' = [op |-> "write", cb |-> "", val |-> v, status |-> "ok",
                      ret |-> v, pre |-> cachedValue]
          /\ UNCHANGED fns
     ELSE IF fns[prop.set].kind = "user"
     THEN /\ log' = <<Event("oldSet", NoHandler, v, Undefined, FALSE, cachedValue)>>
          /\ last' = [op |-> "write", cb |-> "", val |-> v, status |-> "ok",
                      ret |-> Undefined, pre |-> cachedValue]
          /\ UNCHANGED <<prop, fns>>
     ELSE LET d == fns[prop.set].env
              longest == set(fns, d, v, MaxCalls)
          IN \E calls \in (IF longest.overflow THEN StackCalls ELSE {MaxCalls}) :
             LET w == IF calls = MaxCalls THEN longest ELSE set(fns, d, v, calls)
             IN
             /\ fns' = w.heap
             /\ log' = w.log
             /\ last' = [op |-> "write", cb |-> "", val |-> v,
                         status |-> IF w.overflow THEN "overflow"
                                    ELSE IF w.threw THEN "throw" ELSE "ok",
                         ret |-> w.ret, pre |-> cachedValue]
             /\ UNCHANGED prop

Next ==
  \/ \E cb \in TransformCbs : InstallAfterGet(cb)
  \/ \E cb \in TransformCbs : InstallBeforeSet(cb)
  \/ \E cb \in ObserverCbs : InstallAfterSet(cb)
  \/ Read
  \/ \E v \in Val : Write(v)

Spec == Init /\ [][Next]_vars

\* the same field when afterSet callbacks may assign to it; the program
\* writes undefined, a function, 0 or 1, and the callbacks make the other values
NextReentrant ==
  \/ \E cb \in {"inc"} : InstallAfterGet(cb)
  \/ \E cb \in TransformCbs : InstallBeforeSet(cb)
  \/ \E cb \in {"obs"} \cup ReentrantCbs : InstallAfterSet(cb)
  \/ Read
  \/ \E v \in InitVals \cup {0} : Write(v)

\* a field that had no accessor before the first install
InitPlain == Init /\ prop.kind \in {"absent", "data"}

SpecReentrant == InitPlain /\ [][NextReentrant]_vars

TypeOK ==
  /\ prop.kind \in {"absent", "data", "accessor"}
  /\ Len(installed) <= MaxInstalls
  /\ \A i \in 1 .. Len(fns) : fns[i].kind \in {"user", "engineGet", "engineSet"}

\* ----------------------------------------------------- reading the history
\* the log entries of one chain, in invocation order
EventsIn(l, name) == SelectSeq(l, LAMBDA e : e.chain = name)
EventsOf(name) == EventsIn(log, name)

RECURSIVE Ascending(_)
Ascending(S) ==
  IF S = {} THEN <<>>
  ELSE LET m == CHOOSE x \in S : \A y \in S : x <= y
       IN <<m>> \o Ascending(S \ {m})

Reverse(s) == [i \in 1 .. Len(s) |-> s[Len(s) + 1 - i]]

\* the handlers installed into one chain, oldest first (a handler is named by
\* the position of its install call in the history)
InstalledIds(name) ==
  Ascending({i \in 1 .. Len(installed) : installed[i].chain = name})

\* the handler wrappers with the given ids, as the chains hold them
HandlersOf(ids) == [i \in 1 .. Len(ids) |-> [cb |-> installed[ids[i]].cb, id |-> ids[i]]]

\* what a chain of transforming callbacks makes of v when none of them raises
RECURSIVE Composed(_, _)
Composed(chain, v) ==
  IF chain = <<>> THEN v ELSE Composed(Tail(chain), Apply(Head(chain).cb, v))

\* evs are invocations of the handlers `expect`, in that order and once each,
\* the first one given `start` and every later one given its predecessor's
\* result; the run is complete unless its last invocation raised
RanInOrder(evs, expect, start) ==
  /\ Len(evs) <= Len(expect)
  /\ \A i \in 1 .. Len(evs) :
       /\ evs[i].id = expect[i]
       /\ evs[i].cb = installed[expect[i]].cb
       /\ evs[i].arg = IF i = 1 THEN start ELSE evs[i - 1].ret
       /\ i < Len(evs) => ~evs[i].threw
  /\ Len(evs) < Len(expect) => (evs # <<>> /\ evs[Len(evs)].threw)

\* the write of the last step went through the engine's set
EngineWrite == last.op = "write" /\ WriteSetter # NoFn
\* ... and its beforeSet chain ran to the end, so the value was committed
Committed == EngineWrite /\ \A i \in 1 .. Len(log) : log[i].chain = "beforeSet" => ~log[i].threw

\* ------------------------------------------------------------------ claims
\* C1: a read of the intercepted field invokes the afterGet handlers in the
\* order they were installed, once each: the first receives the value the read
\* starts from, each later one the value its predecessor returned, and the
\* read returns the last one's result (a handler that raises ends the run).
C1_AfterGetFIFO ==
  (last.op = "read" /\ Intercepted) =>
    LET evs == EventsOf("afterGet")
        old == EventsOf("oldGet")
        start == IF old # <<>> THEN old[1].ret ELSE last.pre
    IN /\ RanInOrder(evs, InstalledIds("afterGet"), start)
       /\ last.status = "ok" =>
            /\ Len(evs) = Len(InstalledIds("afterGet"))
            /\ last.ret = IF evs = <<>> THEN start ELSE evs[Len(evs)].ret

\* two different handlers ran in a read and the first one changed the value
C1_Witness ==
  /\ last.op = "read" /\ last.status = "ok"
  /\ Len(EventsOf("afterGet")) = 2
  /\ EventsOf("afterGet")[1].cb # EventsOf("afterGet")[2].cb
  /\ EventsOf("afterGet")[1].ret # EventsOf("afterGet")[1].arg

\* C2: a write invokes the beforeSet handlers newest-installed first: the
\* newest receives the incoming value, each older one the value returned by
\* the handler installed just after it, whatever the field was before the
\* first install and whatever other installs happened in between.
C2_BeforeSetLIFO ==
  last.op = "write" =>
    RanInOrder(EventsOf("beforeSet"), Reverse(InstalledIds("beforeSet")), last.val)

\* a write ran two beforeSet handlers, the one installed second first
C2_Witness ==
  /\ last.op = "write"
  /\ Len(EventsOf("beforeSet")) = 2
  /\ EventsOf("beforeSet")[1].id > EventsOf("beforeSet")[2].id
  /\ EventsOf("beforeSet")[1].cb # EventsOf("beforeSet")[2].cb
  /\ EventsOf("beforeSet")[1].ret # last.val

\* C3: a write that commits a value different from the cachedValue it started
\* with invokes the afterSet handlers in installation order, once each, each
\* with the committed value, when cachedValue already is the committed value
\* and after every beforeSet handler of the write (a handler that raises ends
\* the run).
C3_AfterSetFIFO ==
  (Committed /\ cachedValue # last.pre) =>
    LET evs == EventsOf("afterSet")
        expect == InstalledIds("afterSet")
    IN /\ Len(evs) <= Len(expect)
       /\ \A i \in 1 .. Len(evs) :
            /\ evs[i].id = expect[i]
            /\ evs[i].arg = cachedValue
            /\ evs[i].cached = cachedValue
            /\ i < Len(evs) => ~evs[i].threw
       /\ Len(evs) < Len(expect) => (evs # <<>> /\ evs[Len(evs)].threw)
       /\ \A i, j \in 1 .. Len(log) :
            (log[i].chain = "beforeSet" /\ log[j].chain = "afterSet") => i < j

\* a write that changed the value ran two afterSet handlers, the one installed
\* first before the other
C3_Witness ==
  /\ Committed /\ cachedValue # last.pre /\ last.status = "ok"
  /\ Len(EventsOf("afterSet")) = 2
  /\ EventsOf("afterSet")[1].id < EventsOf("afterSet")[2].id

\* C4: a write runs the afterSet chain exactly when the value it commits (the
\* beforeSet chain's result) differs from the cachedValue the write started
\* with; the incoming value plays no part.
C4_ChangeGate ==
  Committed =>
    ((EventsOf("afterSet") # <<>>) <=> (cachedValue # last.pre /\ afterSetChain # <<>>))

\* the beforeSet chain mapped a different incoming value back to the stored
\* value, and the installed afterSet handler was not invoked
C4_Witness ==
  /\ Committed /\ last.val # last.pre /\ cachedValue = last.pre
  /\ EventsOf("beforeSet") # <<>>
  /\ afterSetChain # <<>> /\ EventsOf("afterSet") = <<>>

\* C5: whatever installs succeeded, in whatever order and on whatever initial
\* field, each chain the field's accessors use holds exactly the handlers that
\* were installed into it, once each and in the chain's order; there is one
\* engine getter and one engine setter, and once a handler is installed every
\* read goes through the engine getter and every write through the engine
\* setter, which works on the getter's cachedValue.
C5_SingleState ==
  /\ afterGetChain = HandlersOf(InstalledIds("afterGet"))
  /\ beforeSetChain = HandlersOf(Reverse(InstalledIds("beforeSet")))
  /\ afterSetChain = HandlersOf(InstalledIds("afterSet"))
  /\ Cardinality({i \in 1 .. Len(fns) : fns[i].kind = "engineGet"}) <= 1
  /\ Cardinality({i \in 1 .. Len(fns) : fns[i].kind = "engineSet"}) <= 1
  /\ installed # <<>> =>
       /\ Intercepted /\ ReadGetter = prop.get
       /\ WriteSetter # NoFn /\ WriteSetter = prop.set /\ WriteGetter = ReadGetter

\* C6: when the value an install call reads from the field is callable,
\* installBeforeSet and installAfterSet return false and the three chains keep
\* their members; installAfterGet returns the object and appends its handler.
C6_CallableGuard ==
  [][(last'.op \in {"afterGet", "beforeSet", "afterSet"} /\ last'.status # "throw"
        /\ last'.ret = FnVal) =>
       IF last'.op = "afterGet"
       THEN /\ last'.status = "ok"
            /\ afterGetChain' = Append(afterGetChain, [cb |-> last'.cb, id |-> Len(installed) + 1])
            /\ beforeSetChain' = beforeSetChain
            /\ afterSetChain' = afterSetChain
       ELSE /\ last'.status = "false"
            /\ afterGetChain' = afterGetChain
            /\ beforeSetChain' = beforeSetChain
            /\ afterSetChain' = afterSetChain
            /\ installed' = installed]_vars

\* a write-side install was refused on a field that holds an afterGet handler
C6_Witness ==
  /\ last.op \in {"beforeSet", "afterSet"} /\ last.status = "false"
  /\ last.ret = FnVal
  /\ afterGetChain # <<>>

\* C7: an installBeforeSet or installAfterSet that fails on a callable value
\* changes nothing: cachedValue and the accessors are as before and no
\* installed handler is invoked, also on an already intercepted field.
C7_FailedInstallNoMutation ==
  [][(last'.op \in {"beforeSet", "afterSet"} /\ last'.status = "false") =>
       /\ fns' = fns
       /\ prop' = prop
       /\ EventsIn(log', "afterGet") = <<>>]_vars

\* C8: when a beforeSet handler raises, the write raises, nothing is invoked
\* after the raising handler (no later beforeSet handler, no afterSet
\* handler), and cachedValue is what it was before the write.
C8_VetoedWrite ==
  (EngineWrite /\ ~Committed) =>
    /\ last.status = "throw"
    /\ log[Len(log)].chain = "beforeSet" /\ log[Len(log)].threw
    /\ \A i \in 1 .. Len(log) - 1 : ~log[i].threw
    /\ Len(EventsOf("beforeSet")) <= Len(beforeSetChain)
    /\ EventsOf("afterSet") = <<>>
    /\ cachedValue = last.pre

\* the first of two beforeSet handlers vetoed a value that differs from the
\* stored one; the second was not invoked
C8_Witness ==
  /\ EngineWrite /\ ~Committed
  /\ Len(beforeSetChain) = 2 /\ Len(log) = 1
  /\ last.val # last.pre

\* C9: every read of the intercepted field starts from the current
\* cachedValue, applies the afterGet chain, stores the result as cachedValue
\* and returns it.
C9_ReadsCompose ==
  (last.op = "read" /\ Intercepted /\ last.status = "ok") =>
    /\ last.ret = Composed(afterGetChain, last.pre)
    /\ cachedValue = last.ret

\* C10: with no afterGet handlers, a write of v sets cachedValue to the
\* beforeSet chain's result for v and a following read returns that value;
\* installing an afterSet handler then neither invokes it nor changes the
\* stored value.
C10_WriteCommits ==
  [][/\ (last'.op = "write" /\ WriteSetter # NoFn /\ afterGetChain = <<>>
           /\ \A i \in 1 .. Len(log') : ~log'[i].threw) =>
          cachedValue' = Composed(beforeSetChain, last'.val)
     /\ (Committed /\ afterGetChain = <<>> /\ last'.op = "read") =>
          (last'.status = "ok" /\ last'.ret = cachedValue)
     /\ (Committed /\ afterGetChain = <<>> /\ last'.op = "afterSet"
           /\ last'.status = "ok") =>
          (EventsIn(log', "afterSet") = <<>> /\ cachedValue' = cachedValue)]_vars

\* C11: after any successful install, on every initial shape of the field,
\* reads run the engine's get and writes run the engine's set: a write of v
\* stores the beforeSet chain's result for v as cachedValue.
C11_FunctioningPaths ==
  installed # <<>> =>
    /\ Intercepted /\ ReadGetter = prop.get
    /\ WriteSetter # NoFn /\ WriteGetter = ReadGetter
    /\ (last.op = "write" /\ last.status = "ok") =>
         (EventsOf("oldSet") = <<>> /\ cachedValue = Composed(beforeSetChain, last.val))

\* C12 as stated: when a handler of any chain raises during a read or a
\* write, the operation raises, no later handler is invoked, and cachedValue
\* is what it was before the operation.
C12_FaultLeavesCommitUndone ==
  (last.op \in {"read", "write"} /\ last.status = "throw") =>
    /\ log # <<>> /\ log[Len(log)].threw
    /\ \A i \in 1 .. Len(log) - 1 : ~log[i].threw
    /\ cachedValue = last.pre

\* C12 as amended: when a handler raises during a read or a write, the
\* operation raises, no later handler is invoked and none is invoked twice; a
\* raising afterGet or beforeSet handler leaves cachedValue as it was, while a
\* raising afterSet handler finds the write committed: cachedValue is the
\* value it was handed, not the value before the write.
C12_HandlerFault ==
  (last.op \in {"read", "write"} /\ last.status = "throw") =>
    /\ log # <<>> /\ log[Len(log)].threw
    /\ \A i \in 1 .. Len(log) - 1 : ~log[i].threw
    /\ \A i, j \in 1 .. Len(log) :
         (i # j /\ log[i].chain = log[j].chain) => log[i].id # log[j].id
    /\ log[Len(log)].chain \in {"afterGet", "beforeSet"} => cachedValue = last.pre
    /\ log[Len(log)].chain = "afterSet" =>
         (cachedValue = log[Len(log)].arg /\ cachedValue # last.pre)

\* an afterSet handler raised in a write that had changed the stored value
C12_Witness ==
  /\ last.op = "write" /\ last.status = "throw"
  /\ log[Len(log)].chain = "afterSet" /\ log[Len(log)].threw
  /\ cachedValue = last.val /\ cachedValue # last.pre

\* C13: the getter the field had before interception is invoked only to seed
\* cachedValue: once the field is intercepted and a read or a write has
\* completed, no later read invokes it, and a read after a write starts from
\* the value that write stored.
C13_PriorGetterOnlySeeds ==
  [][(Intercepted /\ last.op \in {"read", "write"} /\ last.status = "ok"
        /\ last'.op = "read") =>
       /\ EventsIn(log', "oldGet") = <<>>
       /\ (last'.status = "ok" => last'.ret = Composed(afterGetChain, cachedValue))]_vars

\* the invocations made inside the handler invocation log[i]
NestedOf(i) ==
  {j \in i + 1 .. Len(log) : \A k \in i + 1 .. j : log[k].depth > log[i].depth}

\* the beforeSet chain, run on v, raises nothing and hands v back unchanged
FixedByBefore(v) ==
  LET b == RunChain(beforeSetChain, v, "beforeSet", cachedValue)
  IN ~b.threw /\ b.val = v

\* the handler invocation log[i] writes the value it was given while that
\* value is still the stored one and the beforeSet chain leaves it unchanged
WritesSameBack(i) ==
  /\ log[i].chain = "afterSet" /\ log[i].cb = "rewrite"
  /\ log[i].cached = log[i].arg
  /\ FixedByBefore(log[i].arg)

\* C14 as stated: when an afterSet handler writes the value it was invoked
\* with to the same field, the write it makes invokes no afterSet handler and
\* the top-level write ends, whatever beforeSet chain is installed.
C14_NoFeedbackLoop ==
  EngineWrite =>
    /\ \A i \in 1 .. Len(log) :
         (log[i].chain = "afterSet" /\ log[i].cb = "rewrite") =>
           \A j \in NestedOf(i) : log[j].chain # "afterSet"
    /\ (\A i \in 1 .. Len(log) : log[i].cb # "bump") => last.status # "overflow"

\* C14 as amended: when an afterSet handler writes the value v it was invoked
\* with to the same field, v is still the stored value and the beforeSet
\* chain maps v to v (as the empty chain does), the write it makes invokes no
\* afterSet handler, and a top-level write in which every write from a
\* handler is of that kind ends.
C14_NoLoopWhenFixed ==
  EngineWrite =>
    /\ \A i \in 1 .. Len(log) :
         WritesSameBack(i) => \A j \in NestedOf(i) : log[j].chain # "afterSet"
    /\ (\A i \in 1 .. Len(log) :
          (log[i].chain = "afterSet" /\ Writes(log[i].cb, log[i].arg)) => WritesSameBack(i))
         => last.status # "overflow"

\* an afterSet handler rewrote the committed value through a beforeSet
\* handler, and the write ended without a second afterSet round
C14_Witness ==
  /\ EngineWrite /\ last.status = "ok"
  /\ \E i \in 1 .. Len(log) :
       /\ log[i].chain = "afterSet" /\ log[i].cb = "rewrite"
       /\ \E j \in NestedOf(i) : log[j].chain = "beforeSet" /\ log[j].arg = log[i].arg

\* C15 as stated: in every reachable state, when cachedValue is callable the
\* beforeSet chain and the afterSet chain are both empty.
C15_CallableNeverIntercepted ==
  (Intercepted /\ cachedValue = FnVal) => (beforeSetChain = <<>> /\ afterSetChain = <<>>)

\* C15 as amended: the callable guard acts at installation only. Right after
\* installBeforeSet or installAfterSet has succeeded, the handler is in its
\* chain and cachedValue is the value the installation read, which is not
\* callable; a refused installation read a callable.
C15_GuardAtInstallOnly ==
  /\ (last.op \in {"beforeSet", "afterSet"} /\ last.status = "ok") =>
       /\ cachedValue = last.ret /\ cachedValue # FnVal
       /\ installed # <<>> /\ installed[Len(installed)] = [chain |-> last.op, cb |-> last.cb]
  /\ (last.op \in {"beforeSet", "afterSet"} /\ last.status = "false") => last.ret = FnVal

\* a write hook was installed on a non-callable value and a later write made
\* the stored value callable with the hook still in place
C15_Witness ==
  /\ installed # <<>> /\ installed[Len(installed)].chain \in {"beforeSet", "afterSet"}
  /\ last.op = "write" /\ last.status = "ok" /\ last.pre # FnVal
  /\ cachedValue = FnVal
  /\ beforeSetChain \o afterSetChain # <<>>

\* the value a read of the current state starts from, given the invocations
\* l that the read made
ReadStart(l) ==
  IF EventsIn(l, "oldGet") # <<>> THEN EventsIn(l, "oldGet")[1].ret ELSE cachedValue

\* C16: an installation on an already intercepted field first performs one
\* read: the afterGet handlers installed so far run once each in chain order
\* and no set handler runs, the handler being installed is not invoked,
\* cachedValue becomes the chain's output, and installBeforeSet/installAfterSet
\* are refused exactly when that output is callable.
C16_InstallReadsOnce ==
  [][(Intercepted /\ last'.op \in {"afterGet", "beforeSet", "afterSet"}) =>
       LET evs == EventsIn(log', "afterGet")
           start == ReadStart(log')
           out == IF evs = <<>> THEN start ELSE evs[Len(evs)].ret
       IN /\ \A i \in 1 .. Len(log') : log'[i].chain \in {"oldGet", "afterGet"}
          /\ RanInOrder(evs, InstalledIds("afterGet"), start)
          /\ \A i \in 1 .. Len(log') : log'[i].id # Len(installed) + 1
          /\ last'.status # "throw" => (last'.ret = out /\ cachedValue' = out)
          /\ (last'.op # "afterGet" /\ last'.status # "throw") =>
               (last'.status = "false" <=> out = FnVal)]_vars

\* a write-side installation was refused because the afterGet chain turned a
\* stored value that is not callable into a callable
C16_Witness ==
  /\ last.op \in {"beforeSet", "afterSet"} /\ last.status = "false"
  /\ last.pre # FnVal
  /\ log # <<>> /\ log[Len(log)].chain = "afterGet" /\ log[Len(log)].ret = FnVal
  /\ cachedValue = FnVal

\* the afterSet invocations among log[j], j \in S, made at depth dp, in order
AfterAt(S, dp) ==
  SelectSeq([j \in 1 .. Len(log) |-> [ev |-> log[j], at |-> j]],
            LAMBDA x : x.at \in S /\ x.ev.chain = "afterSet" /\ x.ev.depth = dp)

\* the invocations after log[i] that belong to the same run of set
SameRound(i) ==
  {j \in i + 1 .. Len(log) : \A k \in i + 1 .. j : log[k].depth >= log[i].depth}

\* C17 as stated: in a write that returns, whenever an afterSet handler given
\* the committed value v writes to the field and that nested write commits
\* w # v, the whole afterSet chain is invoked with w inside the handler's
\* invocation, the handlers after it in the chain are then still invoked with
\* v, and cachedValue is w when the top-level write returns.
C17_NestedRunsWholeChain ==
  (EngineWrite /\ last.status = "ok") =>
    \A i \in 1 .. Len(log) :
      LET e == log[i]
          w == Composed(beforeSetChain, Written(e.cb, e.arg))
          inner == AfterAt(NestedOf(i), e.depth + 1)
          rest == AfterAt(SameRound(i), e.depth)
          pos == CHOOSE k \in 1 .. Len(afterSetChain) : afterSetChain[k].id = e.id
      IN (e.chain = "afterSet" /\ Writes(e.cb, e.arg) /\ w # e.arg) =>
           /\ Len(inner) = Len(afterSetChain)
           /\ \A k \in 1 .. Len(inner) :
                inner[k].ev.id = afterSetChain[k].id /\ inner[k].ev.arg = w
           /\ Len(rest) = Len(afterSetChain) - pos
           /\ \A k \in 1 .. Len(rest) :
                /\ rest[k].ev.id = afterSetChain[pos + k].id
                /\ rest[k].ev.arg = e.arg
                /\ rest[k].at > i + Len(inner)
           /\ e.depth = 0 => (cachedValue = w /\ last.ret = e.arg)

\* C17 as amended: in a write that returns, when an afterSet handler given v
\* writes to the field, the nested write is compared with the value stored at
\* that moment.  When it commits a value w other than the stored one (as it
\* does when v is still stored and w # v), the whole afterSet chain is invoked
\* with w inside the handler's invocation; when it commits the value already
\* stored, no afterSet handler is invoked for it.  Either way the handlers
\* after it in the chain are then still invoked with v, and when no other
\* handler invocation of the write assigns to the field, cachedValue ends as w.
C17_ReentrantWrite ==
  (EngineWrite /\ last.status = "ok") =>
    \A i \in 1 .. Len(log) :
      LET e == log[i]
          w == Composed(beforeSetChain, Written(e.cb, e.arg))
          inner == AfterAt(NestedOf(i), e.depth + 1)
          rest == AfterAt(SameRound(i), e.depth)
          pos == CHOOSE k \in 1 .. Len(afterSetChain) : afterSetChain[k].id = e.id
      IN (e.chain = "afterSet" /\ Writes(e.cb, e.arg)) =>
           /\ w # e.cached => Len(inner) = Len(afterSetChain)
           /\ w = e.cached => inner = <<>>
           /\ \A k \in 1 .. Len(inner) :
                inner[k].ev.id = afterSetChain[k].id /\ inner[k].ev.arg = w
           /\ Len(rest) = Len(afterSetChain) - pos
           /\ \A k \in 1 .. Len(rest) :
                /\ rest[k].ev.id = afterSetChain[pos + k].id
                /\ rest[k].ev.arg = e.arg
                /\ rest[k].at > i + Len(inner)
           /\ (\A k \in 1 .. Len(log) : (k # i) => ~Writes(log[k].cb, log[k].arg)) =>
                (cachedValue = w /\ last.ret = e.arg)

\* the first afterSet handler wrote another value, the chain ran for it, and
\* a later handler of the outer write was then given the stale value
C17_Witness ==
  /\ EngineWrite /\ last.status = "ok"
  /\ \E i, j, k \in 1 .. Len(log) :
       /\ i < j /\ j < k
       /\ log[i].chain = "afterSet" /\ log[i].depth = 0 /\ Writes(log[i].cb, log[i].arg)
       /\ log[j].chain = "afterSet" /\ log[j].depth = 1 /\ log[j].arg = cachedValue
       /\ log[k].chain = "afterSet" /\ log[k].depth = 0 /\ log[k].arg = log[i].arg
       /\ log[k].id # log[i].id
       /\ cachedValue # log[k].arg
====
